---- MODULE Spec2Model ----
(***************************************************************************)
(* Model of src/task_2/script_5.py: the annotation-to-mask script.         *)
(*                                                                         *)
(* State: the parsed annotation tree, the batch of image files, the mask   *)
(* color, the position of the main loop and its locals, the files written. *)
(* Text is a sequence of one-character strings, so that str.split and      *)
(* float() are computed rather than assumed.  A canvas is indexed as numpy *)
(* indexes it, img[y][x][c]: rows of columns of <<c0, c1, c2>> byte triples.*)
(* cv.fillPoly is modelled for polygons whose edges are horizontal or      *)
(* vertical, where OpenCV's rasterization has no rounding: every edge is   *)
(* drawn as a line, and the interior is filled by one scan over the edges  *)
(* of ALL polygons of the call with an even-odd toggle.                    *)
(***************************************************************************)
EXTENDS Integers, Sequences, FiniteSets, TLC

VARIABLES
    tree,            \* the <image> elements of the annotation xml, in document order
    images,          \* the batch: the image files get_files returned
    color,           \* the module-level mask color (line 176)
    pc,              \* position in the script
    idx,             \* index of the image the for loop of line 181 is at
    bgi,             \* index of the (background, path) pair of line 192
    current_image,   \* line 182
    height,          \* line 183
    width,           \* line 183
    backgrounds,     \* line 185
    annotation,      \* line 190
    overlay_points,  \* create_overlay's local, as it was when the call ended
    ignore_points,   \* create_overlay's local, as it was when the call ended
    overlay,         \* line 193
    result,          \* line 194
    files,           \* the output files on disk: path -> pixels
    writes,          \* the paths written, in order
    lookups,         \* the image names parse_annotation was called with, in order
    stdout,          \* what the script printed
    exc              \* the exception that left the loop uncaught, or "none"

vars == <<tree, images, color, pc, idx, bgi, current_image, height, width,
          backgrounds, annotation, overlay_points, ignore_points, overlay,
          result, files, writes, lookups, stdout, exc>>

-----------------------------------------------------------------------------
(* Bounds *)

GridSize == 5
MaxShapes == 3
MaxMixed == 2

-----------------------------------------------------------------------------
(* Text: str.split, float(), ndarray.astype(int) *)

Digits == {"0", "1", "2", "3", "4", "5", "6", "7", "8", "9"}

DigitVal(c) ==
    CASE c = "0" -> 0 [] c = "1" -> 1 [] c = "2" -> 2 [] c = "3" -> 3
      [] c = "4" -> 4 [] c = "5" -> 5 [] c = "6" -> 6 [] c = "7" -> 7
      [] c = "8" -> 8 [] c = "9" -> 9

RECURSIVE Split(_, _)
Split(s, sep) ==
    IF \A i \in 1..Len(s) : s[i] # sep
    THEN <<s>>
    ELSE LET i == CHOOSE i \in 1..Len(s) :
                      s[i] = sep /\ \A j \in 1..(i - 1) : s[j] # sep
         IN  <<SubSeq(s, 1, i - 1)>> \o Split(SubSeq(s, i + 1, Len(s)), sep)

Unsigned(t) == IF Len(t) > 0 /\ t[1] \in {"-", "+"} THEN Tail(t) ELSE t

\* float(t) succeeds: an optional sign, digits with at most one ".", a digit.
IsFloat(t) ==
    LET b == Unsigned(t) IN
    /\ \A i \in 1..Len(b) : b[i] \in Digits \cup {"."}
    /\ Cardinality({i \in 1..Len(b) : b[i] = "."}) <= 1
    /\ \E i \in 1..Len(b) : b[i] \in Digits

RECURSIVE DigitsVal(_)
DigitsVal(d) ==
    IF Len(d) = 0 THEN 0
    ELSE 10 * DigitsVal(SubSeq(d, 1, Len(d) - 1)) + DigitVal(d[Len(d)])

\* float(t): sign, integer part and the digits after the point.
Float(t) ==
    LET b == Unsigned(t)
        parts == Split(b, ".")
    IN  [neg |-> Len(t) > 0 /\ t[1] = "-",
         ip |-> DigitsVal(parts[1]),
         frac |-> IF Len(parts) > 1 THEN parts[2] ELSE <<>>]

\* ndarray.astype(int): the fraction is dropped (truncation toward zero).
AsInt(f) == IF f.neg THEN 0 - f.ip ELSE f.ip

\* [tuple(map(float, point.split(','))) for point in s.split(';')] raises
\* ValueError unless every coordinate is a float.
PointTokens(s) ==
    LET pts == Split(s, ";") IN [i \in 1..Len(pts) |-> Split(pts[i], ",")]

FloatsOk(s) ==
    LET pts == PointTokens(s)
    IN  \A i \in 1..Len(pts) : \A j \in 1..Len(pts[i]) : IsFloat(pts[i][j])

\* np.array(points) of tuples of different lengths is no rectangular array.
ArrayOk(s) ==
    LET pts == PointTokens(s)
    IN  \A i \in 1..Len(pts) : Len(pts[i]) = Len(pts[1])

ParsePoints(s) ==
    LET pts == PointTokens(s)
    IN  [i \in 1..Len(pts) |->
            [j \in 1..Len(pts[i]) |-> AsInt(Float(pts[i][j]))]]

-----------------------------------------------------------------------------
(* Rasters: np.zeros, cv.fillPoly, cv.bitwise_xor, cv.addWeighted *)

Min(a, b) == IF a <= b THEN a ELSE b
Max(a, b) == IF a >= b THEN a ELSE b

Pixels(h, w) == (0..(h - 1)) \X (0..(w - 1))

Black == <<0, 0, 0>>

\* np.zeros((height, width, 3), np.uint8)
Zeros(h, w) == [y \in 0..(h - 1) |-> [x \in 0..(w - 1) |-> Black]]

\* img[y][x] for the pixel p = <<y, x>>
At(img, p) == img[p[1]][p[2]]

\* The edges of the polygons of one fillPoly call: <<k, i>> is the edge of
\* polygon k that ends at its vertex i and starts at the vertex before it
\* (at the last vertex for i = 1).  A point is <<x, y>>.
EdgeIds(pts) ==
    UNION {{<<k, i>> : i \in 1..Len(pts[k])} : k \in 1..Len(pts)}
EdgeFrom(pts, e) ==
    pts[e[1]][IF e[2] = 1 THEN Len(pts[e[1]]) ELSE e[2] - 1]
EdgeTo(pts, e) == pts[e[1]][e[2]]

\* The pixels <<row, column>> of a horizontal or vertical line.
LinePixels(p, q) ==
    CASE p[2] = q[2] -> {<<p[2], x>> : x \in Min(p[1], q[1])..Max(p[1], q[1])}
      [] p[1] = q[1] -> {<<y, p[1]>> : y \in Min(p[2], q[2])..Max(p[2], q[2])}

\* Every edge of every polygon is drawn.
Outline(pts) ==
    UNION {LinePixels(EdgeFrom(pts, e), EdgeTo(pts, e)) : e \in EdgeIds(pts)}

\* The edge table at row y: the non-horizontal edges that start at or above
\* y and end below it, of all the polygons together.
ActiveEdges(pts, y) ==
    {e \in EdgeIds(pts) :
        LET a == EdgeFrom(pts, e)[2]
            b == EdgeTo(pts, e)[2]
        IN  a # b /\ Min(a, b) <= y /\ y < Max(a, b)}

\* The scan of row y walks the active edges by increasing x and toggles
\* drawing at each one: the spans between the 1st and 2nd, the 3rd and 4th
\* edge are filled, ends included.
Scanned(pts, y, x) ==
    LET act == ActiveEdges(pts, y)
    IN  \/ \E e \in act : EdgeFrom(pts, e)[1] = x
        \/ Cardinality({e \in act : EdgeFrom(pts, e)[1] < x}) % 2 = 1

\* cv.fillPoly accepts arrays of 2-column points only.
FillPolyOk(pts) ==
    \A k \in 1..Len(pts) : \A i \in 1..Len(pts[k]) : Len(pts[k][i]) = 2

\* cv.fillPoly(img, pts, color): nothing is drawn for an empty list.
fillPoly(img, pts, col) ==
    IF Len(pts) = 0 THEN img
    ELSE LET line == Outline(pts)
         IN  [y \in DOMAIN img |->
                [x \in DOMAIN img[y] |->
                    IF <<y, x>> \in line \/ Scanned(pts, y, x)
                    THEN col ELSE img[y][x]]]

RECURSIVE BitXor(_, _)
BitXor(a, b) ==
    IF a = 0 THEN b
    ELSE IF b = 0 THEN a
    ELSE ((a + b) % 2) + 2 * BitXor(a \div 2, b \div 2)

\* cv.bitwise_xor(a, b): channel by channel
bitwise_xor(a, b) ==
    [y \in DOMAIN a |->
        [x \in DOMAIN a[y] |-> [c \in 1..3 |-> BitXor(a[y][x][c], b[y][x][c])]]]

Saturate(v) == IF v < 0 THEN 0 ELSE IF v > 255 THEN 255 ELSE v

\* The element [y][x][c] of cv.addWeighted(src1, alpha, src2, beta, gamma),
\* for integer weights
addWeighted(src1, alpha, src2, beta, gamma, y, x, c) ==
    Saturate(src1[y][x][c] * alpha + src2[y][x][c] * beta + gamma)

-----------------------------------------------------------------------------
(* create_overlay and apply_mask *)

\* Mutant of IsPositive: the label is compared without regard to case.
IsPositiveAnyCase(shape) == shape["label"] \notin {"Ignore", "ignore", "IGNORE"}

\* line 139
IsPositive(shape) == shape["label"] # "Ignore"

\* The loop of lines 133-142 from shape k on; op and ip are overlay_points
\* and ignore_points so far.  A lookup of a missing key raises KeyError.
RECURSIVE RegionLoop(_, _, _, _)
RegionLoop(shapes, k, op, ip) ==
    IF k > Len(shapes)
    THEN [exc |-> "none", overlay_points |-> op, ignore_points |-> ip]
    ELSE LET shape == shapes[k] IN
         IF "points" \notin DOMAIN shape
         THEN [exc |-> "KeyError", overlay_points |-> op, ignore_points |-> ip]
         ELSE IF ~(FloatsOk(shape["points"]) /\ ArrayOk(shape["points"]))
         THEN [exc |-> "ValueError", overlay_points |-> op, ignore_points |-> ip]
         ELSE IF "label" \notin DOMAIN shape
         THEN [exc |-> "KeyError", overlay_points |-> op, ignore_points |-> ip]
         ELSE IF IsPositive(shape)
         THEN RegionLoop(shapes, k + 1,
                         Append(op, ParsePoints(shape["points"])), ip)
         ELSE RegionLoop(shapes, k + 1,
                         op, Append(ip, ParsePoints(shape["points"])))

\* lines 144-147
Combine(w, h, op, ip, col) ==
    bitwise_xor(fillPoly(Zeros(h, w), op, col), fillPoly(Zeros(h, w), ip, col))

\* create_overlay(width, height, shapes), with the module's color: what the
\* call raised, its two lists, and the overlay it returned if it returned.
create_overlay(w, h, shapes, col) ==
    LET r == RegionLoop(shapes, 1, <<>>, <<>>) IN
    IF r.exc # "none"
    THEN [exc |-> r.exc, overlay_points |-> r.overlay_points,
          ignore_points |-> r.ignore_points, overlay |-> Zeros(h, w)]
    ELSE IF ~(FillPolyOk(r.overlay_points) /\ FillPolyOk(r.ignore_points))
    THEN [exc |-> "cv2.error", overlay_points |-> r.overlay_points,
          ignore_points |-> r.ignore_points, overlay |-> Zeros(h, w)]
    ELSE [exc |-> "none", overlay_points |-> r.overlay_points,
          ignore_points |-> r.ignore_points,
          overlay |-> Combine(w, h, r.overlay_points, r.ignore_points, col)]

\* Mutant of apply_mask: the blend is assigned to the whole background,
\* without the mask.
apply_mask_unmasked(background, ov) ==
    [y \in DOMAIN background |->
        [x \in DOMAIN background[y] |->
            [c \in 1..3 |-> addWeighted(background, 0, ov, 1, 0, y, x, c)]]]

\* apply_mask(background, overlay): mask is overlay.astype(bool), one flag
\* per channel, and only the flagged channels are assigned.
apply_mask(background, ov) ==
    [y \in DOMAIN background |->
        [x \in DOMAIN background[y] |->
            [c \in 1..3 |->
                IF ov[y][x][c] # 0
                THEN addWeighted(background, 0, ov, 1, 0, y, x, c)
                ELSE background[y][x][c]]]]

-----------------------------------------------------------------------------
(* The annotation tree: get_shapes and parse_annotation *)

\* Path(text).name
PathName(p) == p[Len(p)]

\* get_shapes(image_tag): one dict per child element, 'type' and attributes
get_shapes(image_tag) ==
    [i \in 1..Len(image_tag.children) |->
        image_tag.children[i].attrs @@ ("type" :> image_tag.children[i].tag)]

Matches(image_tag, image_name) == PathName(image_tag.attrs["name"]) = image_name

\* line 109: every matching element has its name replaced by the base name
TreeAfterParse(t, image_name) ==
    [i \in 1..Len(t) |->
        IF Matches(t[i], image_name)
        THEN [t[i] EXCEPT !.attrs = ("name" :> <<image_name>>) @@ @]
        ELSE t[i]]

NoDict == [k \in {} |-> 0]

\* parse_annotation(tree, image_name): the dict of the last matching
\* element, or the empty dict
parse_annotation(t, image_name) ==
    LET hits == {i \in 1..Len(t) : Matches(t[i], image_name)} IN
    IF hits = {} THEN NoDict
    ELSE LET i == CHOOSE i \in hits : \A j \in hits : j <= i
             tag == TreeAfterParse(t, image_name)[i]
         IN  ("shapes" :> get_shapes(tag)) @@ tag.attrs

-----------------------------------------------------------------------------
(* Inputs *)

SeqsUpTo(S, n) == UNION {[1..m -> S] : m \in 0..n}

\* "0,0;3,0;3,3;0,3": the square of pixels 0..3
PtsA == <<"0", ",", "0", ";", "3", ",", "0", ";", "3", ",", "3", ";", "0", ",", "3">>
\* "1.9,1.2;4,1;4,4;1,4.5": as integers, the square of pixels 1..4
PtsB == <<"1", ".", "9", ",", "1", ".", "2", ";", "4", ",", "1", ";", "4", ",", "4", ";", "1", ",", "4", ".", "5">>
\* "1,2;3,2": two points
PtsLine == <<"1", ",", "2", ";", "3", ",", "2">>
\* "2,2": one point
PtsDot == <<"2", ",", "2">>
\* "1,x;3,1;3,3": a coordinate that is no number
PtsBad == <<"1", ",", "x", ";", "3", ",", "1", ";", "3", ",", "3">>

Polygon(label, points) ==
    [tag |-> "polygon", attrs |-> [label |-> label, points |-> points]]

\* Shapes of three or more well-formed points.
RegularShapes ==
    {Polygon("Car", PtsA), Polygon("Car", PtsB),
     Polygon("Ignore", PtsB), Polygon("ignore", PtsA)}

\* A polyline of two points, a one-point shape, an unparsable point string,
\* and a <box>, which has corner attributes and no points.
IrregularShapes ==
    {[tag |-> "polyline", attrs |-> [label |-> "Car", points |-> PtsLine]],
     [tag |-> "points", attrs |-> [label |-> "Ignore", points |-> PtsDot]],
     Polygon("Car", PtsBad),
     [tag |-> "box", attrs |-> [label |-> "Car", xtl |-> <<"1">>]]}

ShapeLists ==
    SeqsUpTo(RegularShapes, MaxShapes)
        \cup SeqsUpTo(RegularShapes \cup IrregularShapes, MaxMixed)

ImageTag(name, children) ==
    [attrs |-> [id |-> <<"0">>, name |-> name], children |-> children]

\* The annotation trees: one record for a.jpg, or a record for a.jpg stored
\* with a directory, followed by a record for b.jpg.
Trees ==
    {<<ImageTag(<<"a.jpg">>, s)>> : s \in ShapeLists}
        \cup {<<ImageTag(<<"frames", "a.jpg">>, s),
                ImageTag(<<"b.jpg">>, <<Polygon("Car", PtsB)>>)>> :
                    s \in ShapeLists}

PhotoA ==
    [y \in 0..(GridSize - 1) |-> [x \in 0..(GridSize - 1) |-> <<10 + x, 20 + y, 30>>]]
PhotoB ==
    [y \in 0..(GridSize - 1) |-> [x \in 0..(GridSize - 1) |-> <<200, 0, 7>>]]

FileA == [name |-> "a.jpg", height |-> GridSize, width |-> GridSize,
          data |-> PhotoA]
FileB == [name |-> "b.jpg", height |-> GridSize, width |-> GridSize,
          data |-> PhotoB]

Batches == {<<FileA>>, <<FileA, FileB>>, <<FileB, FileA>>}

\* Values of get_color: "#00ff00" and "#ffffff"
Colors == {<<0, 255, 0>>, <<255, 255, 255>>}

\* line 178
dir_names == <<"mask", "mask_on_photo">>

-----------------------------------------------------------------------------
(* The script: the else branch of lines 175-197 and the finally of 199 *)

Start(t, batch, col) ==
    /\ tree = t
    /\ images = batch
    /\ color = col
    /\ pc = "for_image"
    /\ idx = 1
    /\ bgi = 1
    /\ current_image = Zeros(0, 0)
    /\ height = 0
    /\ width = 0
    /\ backgrounds = <<Zeros(0, 0), Zeros(0, 0)>>
    /\ annotation = NoDict
    /\ overlay_points = <<>>
    /\ ignore_points = <<>>
    /\ overlay = Zeros(0, 0)
    /\ result = Zeros(0, 0)
    /\ files = NoDict
    /\ writes = <<>>
    /\ lookups = <<>>
    /\ stdout = <<>>
    /\ exc = "none"

Init == \E t \in Trees, batch \in Batches, col \in Colors : Start(t, batch, col)

\* lines 181-188: the next image is read and its two backgrounds are made;
\* after the last image the loop ends.
ReadImage ==
    /\ pc = "for_image"
    /\ IF idx > Len(images)
       THEN /\ pc' = "finally"
            /\ UNCHANGED <<current_image, height, width, backgrounds>>
       ELSE /\ current_image' = images[idx].data
            /\ height' = images[idx].height
            /\ width' = images[idx].width
            /\ backgrounds' = <<Zeros(images[idx].height, images[idx].width),
                                images[idx].data>>
            /\ pc' = "parse"
    /\ UNCHANGED <<tree, images, color, idx, bgi, annotation, overlay_points,
                   ignore_points, overlay, result, files, writes, lookups,
                   stdout, exc>>

\* line 190
ParseAnnotation ==
    /\ pc = "parse"
    /\ annotation' = parse_annotation(tree, images[idx].name)
    /\ tree' = TreeAfterParse(tree, images[idx].name)
    /\ lookups' = Append(lookups, images[idx].name)
    /\ bgi' = 1
    /\ pc' = "overlay"
    /\ UNCHANGED <<images, color, idx, current_image, height, width,
                   backgrounds, overlay_points, ignore_points, overlay,
                   result, files, writes, stdout, exc>>

\* line 193: annotation['shapes'] raises KeyError on the empty dict; an
\* exception of create_overlay is caught nowhere and leaves the loop.
CreateOverlay ==
    /\ pc = "overlay"
    /\ IF "shapes" \notin DOMAIN annotation
       THEN /\ exc' = "KeyError"
            /\ pc' = "finally"
            /\ UNCHANGED <<overlay_points, ignore_points, overlay>>
       ELSE \E r \in {create_overlay(width, height, annotation["shapes"], color)} :
                /\ overlay_points' = r.overlay_points
                /\ ignore_points' = r.ignore_points
                /\ exc' = r.exc
                /\ IF r.exc = "none"
                   THEN overlay' = r.overlay /\ pc' = "apply"
                   ELSE overlay' = overlay /\ pc' = "finally"
    /\ UNCHANGED <<tree, images, color, idx, bgi, current_image, height, width,
                   backgrounds, annotation, result, files, writes, lookups,
                   stdout>>

\* line 194: the background is changed in place and is the result
ApplyMask ==
    /\ pc = "apply"
    /\ backgrounds' = [backgrounds EXCEPT ![bgi] = apply_mask(@, overlay)]
    /\ result' = backgrounds'[bgi]
    /\ pc' = "write"
    /\ UNCHANGED <<tree, images, color, idx, bgi, current_image, height, width,
                   annotation, overlay_points, ignore_points, overlay, files,
                   writes, lookups, stdout, exc>>

\* line 196: '<dir>/<dir>-<image name>', as <<dir, dir, image name>>
OutputPath(dir, name) == <<dir, dir, name>>

\* lines 196-197, then the next background or the next image
WriteOutput ==
    /\ pc = "write"
    /\ LET output_path == OutputPath(dir_names[bgi], images[idx].name)
       IN  /\ files' = (output_path :> result) @@ files
           /\ writes' = Append(writes, output_path)
    /\ IF bgi < Len(dir_names)
       THEN bgi' = bgi + 1 /\ pc' = "overlay" /\ idx' = idx
       ELSE bgi' = bgi /\ pc' = "for_image" /\ idx' = idx + 1
    /\ UNCHANGED <<tree, images, color, current_image, height, width,
                   backgrounds, annotation, overlay_points, ignore_points,
                   overlay, result, lookups, stdout, exc>>

\* lines 199-200: reached when the loop ends and when an exception leaves it
Finally ==
    /\ pc = "finally"
    /\ stdout' = Append(stdout, "Script is stopped!")
    /\ pc' = "exit"
    /\ UNCHANGED <<tree, images, color, idx, bgi, current_image, height, width,
                   backgrounds, annotation, overlay_points, ignore_points,
                   overlay, result, files, writes, lookups, exc>>

Next ==
    \/ ReadImage
    \/ ParseAnnotation
    \/ CreateOverlay
    \/ ApplyMask
    \/ WriteOutput
    \/ Finally

Spec == Init /\ [][Next]_vars

-----------------------------------------------------------------------------
(* The end-to-end scenario of the specification: one 100x100 image, one     *)
(* shape "Car" at 10,10;50,10;50,50;10,50, mask color (0,255,0).  The photo *)
(* is of one color, any of 27.                                              *)

PtsCar == <<"1", "0", ",", "1", "0", ";", "5", "0", ",", "1", "0", ";", "5", "0", ",", "5", "0", ";", "1", "0", ",", "5", "0">>

E2EPhotos ==
    {[y \in 0..99 |-> [x \in 0..99 |-> c]] :
        c \in {0, 9, 200} \X {0, 9, 200} \X {0, 9, 200}}

InitE2E ==
    \E photo \in E2EPhotos :
        Start(<<ImageTag(<<"car.jpg">>, <<Polygon("Car", PtsCar)>>)>>,
              <<[name |-> "car.jpg", height |-> 100, width |-> 100,
                 data |-> photo]>>,
              <<0, 255, 0>>)

SpecE2E == InitE2E /\ [][Next]_vars

-----------------------------------------------------------------------------
(* Vocabulary of the properties *)

\* create_overlay has just returned a mask for the current image
OverlayReturned == pc \in {"apply", "write"}

Shapes == annotation["shapes"]

LabelIsIgnore(shape) == shape["label"] = "Ignore"
LabelIsOther(shape) == shape["label"] # "Ignore"

\* Pixel p is covered by the polygon: rasterized alone, the polygon colors it.
Covers(points, p) ==
    At(fillPoly([y \in {p[1]} |-> [x \in {p[2]} |-> Black]],
                <<ParsePoints(points)>>, <<1, 1, 1>>), p) # Black

IgnoreCovers(p) ==
    \E i \in 1..Len(Shapes) :
        LabelIsIgnore(Shapes[i]) /\ Covers(Shapes[i]["points"], p)
PositiveCovers(p) ==
    \E i \in 1..Len(Shapes) :
        LabelIsOther(Shapes[i]) /\ Covers(Shapes[i]["points"], p)

PointsOf(shapeSeq) ==
    [i \in 1..Len(shapeSeq) |-> ParsePoints(shapeSeq[i]["points"])]

\* Image k of the batch has no <image> record.
NoRecord(k) == \A i \in 1..Len(tree) : ~Matches(tree[i], images[k].name)

\* The processing of image k has ended, by its last write or by an exception.
Ended(k) == k < idx \/ (k = idx /\ pc \in {"finally", "exit"})

Written(k) ==
    \A d \in 1..Len(dir_names) :
        OutputPath(dir_names[d], images[k].name) \in DOMAIN files

-----------------------------------------------------------------------------
(* Properties *)

\* C1: in the mask create_overlay returns, a pixel covered by a polygon
\* labeled "Ignore" and by a polygon of any other label is zero.
C1_IgnoreRemovesPositive ==
    OverlayReturned =>
        \A p \in Pixels(height, width) :
            (IgnoreCovers(p) /\ PositiveCovers(p)) => At(overlay, p) = Black

\* C2: after apply_mask, every pixel at which the mask is non-zero holds
\* exactly the mask color in all three channels.
C2_MaskedPixelsAreMaskColor ==
    pc = "write" =>
        \A p \in Pixels(height, width) :
            At(overlay, p) # Black => At(result, p) = color

\* C3: apply_mask leaves every pixel at which the mask is zero in all three
\* channels as it was before the call.
C3_ZeroMaskUntouched ==
    [][pc = "apply" =>
        \A p \in Pixels(height, width) :
            At(overlay, p) = Black =>
                /\ At(backgrounds'[bgi], p) = At(backgrounds[bgi], p)
                /\ At(result', p) = At(backgrounds[bgi], p)]_vars

\* C3 witness: on the photo, a pixel outside the mask kept its photo value
\* while another pixel was overwritten.
C3_Witness ==
    /\ pc = "write"
    /\ bgi = 2
    /\ \E p \in Pixels(height, width) :
          At(overlay, p) = Black /\ At(result, p) = At(current_image, p) /\ At(result, p) # Black
    /\ \E q \in Pixels(height, width) :
          At(overlay, q) # Black /\ At(result, q) # At(current_image, q)

\* C4: an image without a matching record is processed without an error:
\* its 'mask' output is all zero and its 'mask_on_photo' output is the photo.
C4_NoRecordIsZeroShapes ==
    \A k \in 1..Len(images) :
        (NoRecord(k) /\ Ended(k)) =>
            /\ exc = "none"
            /\ Written(k)
            /\ files[OutputPath("mask", images[k].name)]
                   = Zeros(images[k].height, images[k].width)
            /\ files[OutputPath("mask_on_photo", images[k].name)]
                   = images[k].data

\* C5: when one image fails on a malformed shape, every later image of the
\* batch is still processed and has both outputs written.
C5_BatchContinues ==
    (pc = "exit" /\ exc # "none" /\ "shapes" \in DOMAIN annotation) =>
        \A k \in (idx + 1)..Len(images) : Written(k)

\* C6: create_overlay returns no mask for a record with a shape of fewer than
\* 3 points or a malformed point string.
WellFormed(shape) ==
    /\ "points" \in DOMAIN shape
    /\ FloatsOk(shape["points"])
    /\ ArrayOk(shape["points"])
    /\ Len(ParsePoints(shape["points"])) >= 3

C6_MalformedShapeFails ==
    OverlayReturned => \A i \in 1..Len(Shapes) : WellFormed(Shapes[i])

\* C7: in the mask create_overlay returns, a pixel covered by an "Ignore"
\* polygon and by no positive polygon is zero.
C7_IgnoreOnlyIsZero ==
    OverlayReturned =>
        \A p \in Pixels(height, width) :
            (IgnoreCovers(p) /\ ~PositiveCovers(p)) => At(overlay, p) = Black

\* C8: with no Ignore polygon, a pixel inside one or more of the polygons is
\* the mask color and a pixel outside all of them is zero.
C8_UnionOfPolygons ==
    (OverlayReturned /\ \A i \in 1..Len(Shapes) : LabelIsOther(Shapes[i])) =>
        \A p \in Pixels(height, width) :
            At(overlay, p) = IF PositiveCovers(p) THEN color ELSE Black

\* C9: the loop of create_overlay is a stable partition: overlay_points holds
\* the shapes whose label is not exactly "Ignore", ignore_points those whose
\* label is, each in input order, and every shape is in exactly one list.
\* When the loop was left by an exception the same holds of the shapes before
\* the failing one.
C9_StablePartition ==
    ((OverlayReturned \/ (pc \in {"finally", "exit"} /\ exc # "none"))
            /\ "shapes" \in DOMAIN annotation) =>
        LET n == Len(overlay_points) + Len(ignore_points)
            done == SubSeq(Shapes, 1, n)
        IN  /\ n <= Len(Shapes)
            /\ OverlayReturned => n = Len(Shapes)
            /\ overlay_points = PointsOf(SelectSeq(done, LabelIsOther))
            /\ ignore_points = PointsOf(SelectSeq(done, LabelIsIgnore))

\* C9 witness: a returned call with three shapes, one labeled "ignore" in
\* lower case, one labeled "Ignore", in both lists.
C9_Witness ==
    /\ pc = "apply"
    /\ Len(Shapes) = 3
    /\ \E i \in 1..Len(Shapes) : Shapes[i]["label"] = "ignore"
    /\ Len(ignore_points) = 1
    /\ Len(overlay_points) = 2
    /\ overlay_points[1] # overlay_points[2]
    /\ Shapes[1]["label"] = "Ignore"

\* C10: in the end-to-end scenario the mask is a 40x40 block of the mask color
\* at offset (10,10) and zero elsewhere, and the same pixels are the mask
\* color in the photo output.
InBlock40(p) == 10 <= p[1] /\ p[1] < 50 /\ 10 <= p[2] /\ p[2] < 50

C10_EndToEndBlock ==
    pc = "exit" =>
        /\ exc = "none"
        /\ files[OutputPath("mask", "car.jpg")]
               = [y \in 0..99 |->
                    [x \in 0..99 |-> IF InBlock40(<<y, x>>) THEN color ELSE Black]]
        /\ \A p \in Pixels(100, 100) :
               (At(files[OutputPath("mask_on_photo", "car.jpg")], p) = color)
                   <=> InBlock40(p)

\* The path of write j when every image yields its two outputs in turn:
\* 'mask' then 'mask_on_photo' of image 1, then those of image 2, ...
ExpectedWrite(j) ==
    OutputPath(dir_names[((j - 1) % Len(dir_names)) + 1],
               images[((j - 1) \div Len(dir_names)) + 1].name)

WritesOf(k) ==
    {j \in 1..Len(writes) : writes[j][3] = images[k].name}

\* The order of C11 alone: the writes come image by image, 'mask' first, and
\* the lookup of an image begins only after both writes of every earlier one.
C11_OrderOnly ==
    /\ Len(writes) <= Len(dir_names) * Len(images)
    /\ \A j \in 1..Len(writes) : writes[j] = ExpectedWrite(j)
    /\ \A k \in 1..Len(lookups) : lookups[k] = images[k].name
    /\ Len(lookups) >= 1 => Len(writes) >= Len(dir_names) * (Len(lookups) - 1)
    /\ Len(writes) <= Len(dir_names) * Len(lookups)

\* C11: images are processed one after another: the writes come image by
\* image, 'mask' then 'mask_on_photo', both before the lookup or any write of
\* a later image, and each image of the batch yields exactly two writes.
C11_SequentialTwoWrites ==
    /\ C11_OrderOnly
    /\ \A k \in 1..Len(images) :
          (Ended(k) \/ pc = "exit") => Cardinality(WritesOf(k)) = 2

\* C12: the annotation tree is read-only after the initial parse: no step,
\* and so no call of parse_annotation, changes an attribute of an <image>.
C12_TreeReadOnly == [][tree' = tree]_vars

====
